---- MODULE Spec2Model ----
(***************************************************************************)
(* Model of Home.py: the Streamlit script that logs into Swiggy with an    *)
(* OTP, pages through the order history and keeps two tables (orders,      *)
(* items) in the session state.                                            *)
(*                                                                         *)
(* One behaviour is one browser session: a sequence of runs of the script. *)
(* Every widget interaction re-executes the script from the top (Rerun).   *)
(* A run is cut at its remote requests: each action is the code from one   *)
(* request up to, not including, the next one, and the remote's answer is  *)
(* the action's input.                                                     *)
(*                                                                         *)
(* Strings that the code takes apart (the root page) are sequences of      *)
(* lexemes; the literal "csrfToken" is one lexeme.                         *)
(***************************************************************************)
EXTENDS Integers, Sequences, FiniteSets, TLC

----------------------------------------------------------------------------
(* Bounds of the model *)

\* longest order list the remote returns in one response
MaxPageLen == 2
\* largest total_orders the initial response reports
MaxCount == 23

\* page size assumed by the paginator: ceil(count/10)
PageSize == 10

NoneVal == "None"

----------------------------------------------------------------------------
(* Python helpers *)

Last(s) == s[Len(s)]

\* str.split(sep) on a sequence of lexemes, sep a single lexeme
RECURSIVE Split(_, _)
Split(s, sep) ==
  IF \A k \in 1..Len(s) : s[k] # sep
  THEN <<s>>
  ELSE LET k == CHOOSE k \in 1..Len(s) :
                  s[k] = sep /\ \A j \in 1..(k-1) : s[j] # sep
       IN <<SubSeq(s, 1, k-1)>> \o Split(SubSeq(s, k+1, Len(s)), sep)

\* s[2:-1]
Slice2m1(s) == IF Len(s) <= 3 THEN <<>> ELSE SubSeq(s, 3, Len(s) - 1)

\* text.split("csrfToken")[1].split("=")[1].split(";")[0][2:-1]
\* raises IndexError when an index [1] is out of range
ParseCsrf(text) ==
  LET a == Split(text, "csrfToken") IN
  IF Len(a) < 2 THEN [raises |-> TRUE, token |-> <<>>]
  ELSE LET b == Split(a[2], "=") IN
       IF Len(b) < 2 THEN [raises |-> TRUE, token |-> <<>>]
       ELSE [raises |-> FALSE, token |-> Slice2m1(Split(b[2], ";")[1])]

\* ceil(count/10)
Ceil10(count) == (count + PageSize - 1) \div PageSize

----------------------------------------------------------------------------
(* What the remote service may answer *)

RootPage(tok) ==
  <<"<script>", "csrfToken", " ", "=", " ", "'">> \o tok \o <<"'", ";", "</script>">>

RootTexts ==
  { RootPage(<<"tA">>), RootPage(<<"tB">>),   \* well formed, two tokens
    RootPage(<<>>),                            \* fragment with an empty token
    <<"<html>", "=", ";">>,                    \* no csrfToken fragment
    <<"csrfToken", ";">> }                     \* fragment without "="

\* err: "none", or the exception session.get/post raises ("conn" is
\* requests.exceptions.ConnectionError)
RootResponses ==
  [err : {"none"}, text : RootTexts, cookie : {"sw1"}]
  \cup { [err |-> "none", text |-> RootPage(<<"tA">>), cookie |-> NoneVal],
         [err |-> "conn", text |-> <<>>, cookie |-> NoneVal] }

InvalidRequest == <<"Invalid Request">>

SendResponses ==
  { [err |-> "none", status |-> 200, body |-> <<"{ok}">>],
    [err |-> "none", status |-> 200, body |-> InvalidRequest],
    [err |-> "none", status |-> 500, body |-> <<"oops">>],
    [err |-> "conn", status |-> 0,   body |-> <<>>] }

VerifyResponses ==
  { [err |-> "none", status |-> 200, body |-> <<"{ok}">>],
    [err |-> "none", status |-> 200, body |-> InvalidRequest],
    [err |-> "none", status |-> 401, body |-> <<"{denied}">>],
    [err |-> "conn", status |-> 0,   body |-> <<>>] }

\* raw orders as the orders endpoint lists them; a key the JSON object lacks
\* reads "None" through dict.get
Item(n, v) == [name |-> n, is_veg |-> v]

RawOrders ==
  { [order_id |-> "o1", order_status |-> "Delivered", order_total |-> "250",
     restaurant_name |-> "r1", order_time |-> "t1",
     rain_mode |-> NoneVal, on_time |-> NoneVal,
     order_items |-> <<Item("dosa", "1"), Item("egg", "0")>>],
    [order_id |-> "o2", order_status |-> "Cancelled", order_total |-> "90",
     restaurant_name |-> "r2", order_time |-> "t2",
     rain_mode |-> "True", on_time |-> "False",
     order_items |-> <<Item("tea", "1")>>],
    [order_id |-> "o3", order_status |-> "Delivered", order_total |-> "40",
     restaurant_name |-> "r1", order_time |-> "t3",
     rain_mode |-> "True", on_time |-> NoneVal,
     order_items |-> <<>>] }

RECURSIVE SeqsUpTo(_, _)
SeqsUpTo(S, n) ==
  IF n = 0 THEN {<<>>}
  ELSE LET shorter == SeqsUpTo(S, n - 1)
       IN shorter \cup { Append(s, x) : s \in shorter, x \in S }

\* order lists the remote may return: no order twice in one list
Pages ==
  { s \in SeqsUpTo(RawOrders, MaxPageLen) :
      \A j, k \in 1..Len(s) : j # k => s[j] # s[k] }


\* JSON bodies of the orders endpoint.  data: "none" (key absent or null),
\* "empty" ({}), "dict".  orders_kind: "list", "absent" (no orders key),
\* "null".  total_kind: "int", "absent", "str" (not a number).
\* err "json" is response.json() raising on a body that is not JSON.
OrdersJson(ok, o, tk, t) ==
  [err |-> "none", data |-> "dict", orders_kind |-> ok, orders |-> o,
   total_kind |-> tk, total |-> t]

OrdersFailure(e, d) ==
  [err |-> e, data |-> d, orders_kind |-> "absent", orders |-> <<>>,
   total_kind |-> "absent", total |-> 0]

BadOrdersResponses ==
  { OrdersFailure("conn", "none"), OrdersFailure("json", "none"),
    OrdersFailure("none", "none"), OrdersFailure("none", "empty") }

InitialResponses ==
  BadOrdersResponses
  \cup { OrdersJson("list", o, "int", t) : o \in Pages, t \in 0..MaxCount }
  \cup { OrdersJson("list", o, tk, 0) : o \in Pages, tk \in {"absent", "str"} }
  \cup { OrdersJson(ok, <<>>, "int", 0) : ok \in {"absent", "null"} }

PageResponses ==
  BadOrdersResponses
  \cup { OrdersJson("list", o, "absent", 0) : o \in Pages }
  \cup { OrdersJson(ok, <<>>, "absent", 0) : ok \in {"absent", "null"} }

\* values the user may type
Usernames == {"", "98"}
Otps == {"", "1234"}

----------------------------------------------------------------------------
(* process_orders_batch *)

\* dict.get(key, default)
Get(v, default) == IF v = NoneVal THEN default ELSE v

\* no filter on the status
IsDelivered_Any(order) == order.order_status # ""

IsDelivered(order) == Get(order.order_status, "") = "Delivered"

OrderRow(order) ==
  << order.order_id, order.order_total, order.restaurant_name,
     order.order_time, Get(order.rain_mode, "False"), Get(order.on_time, "True") >>

ItemRows(order) ==
  [ k \in 1..Len(order.order_items) |->
      << order.order_id, order.order_items[k].name, order.order_items[k].is_veg >> ]

\* rows put in front of the earlier ones instead of behind them
RECURSIVE BatchRows_Prepend(_)
BatchRows_Prepend(delivered) ==
  IF delivered = <<>> THEN [orders |-> <<>>, items |-> <<>>]
  ELSE LET rest == BatchRows_Prepend(Tail(delivered))
           order == Head(delivered)
       IN [orders |-> rest.orders \o <<OrderRow(order)>>,
           items  |-> rest.items \o ItemRows(order)]

\* the rows the loop over delivered_orders appends: [orders, items]
RECURSIVE BatchRows(_)
BatchRows(delivered) ==
  IF delivered = <<>> THEN [orders |-> <<>>, items |-> <<>>]
  ELSE LET rest == BatchRows(Tail(delivered))
           order == Head(delivered)
       IN [orders |-> <<OrderRow(order)>> \o rest.orders,
           items  |-> ItemRows(order) \o rest.items]

\* item rows taken from every order of the batch, Delivered or not
process_orders_batch_AllItems(orders, acc_orders, acc_items) ==
  [all_orders |-> acc_orders \o BatchRows(SelectSeq(orders, IsDelivered)).orders,
   all_items  |-> acc_items \o BatchRows(orders).items]

process_orders_batch(orders, acc_orders, acc_items) ==
  LET rows == BatchRows(SelectSeq(orders, IsDelivered))
  IN [all_orders |-> acc_orders \o rows.orders,
      all_items  |-> acc_items \o rows.items]

----------------------------------------------------------------------------
(* State *)

VARIABLES
  pc,            \* where the current run stands; "idle" between runs
  session_state, \* st.session_state: orders_df, items_df
  widgets,       \* what the widgets return in the current run
  rendered,      \* widgets the current run has put on the page
  doc_step,      \* how far the user has followed "How it works"
  csrf_token, sw_cookie,
  log,           \* requests and sleeps of the current run, in order
  fetched,       \* order lists the orders endpoint returned in this run
  all_orders, all_items, offset_id, pages, i,
  messages,      \* st.error / st.info / st.success / st.warning of the run
  status_text, progress,
  loop_exit,     \* how the pagination loop was left
  ret            \* what fetch_swiggy_orders returned

locals == <<csrf_token, sw_cookie, all_orders, all_items, offset_id, pages, i>>
display == <<messages, status_text, progress>>
vars == <<pc, session_state, widgets, rendered, doc_step, csrf_token, sw_cookie,
          log, fetched, all_orders, all_items, offset_id, pages, i,
          messages, status_text, progress, loop_exit, ret>>

\* a DataFrame, or None
NoneDF == [isNone |-> TRUE, rows |-> <<>>]
DF(rows) == [isNone |-> FALSE, rows |-> rows]

Msg(level, text, page) == [level |-> level, text |-> text, page |-> page]
Status(text, n, of) == [text |-> text, n |-> n, of |-> of]
NoStatus == Status("", 0, 0)

\* a request with what the remote answered, or a sleep
Entry(req, arg, resp) == [req |-> req, arg |-> arg, resp |-> resp]
\* what the log keeps of an answer of the orders endpoint
Seen(resp) ==
  [err |-> resp.err, data |-> resp.data, orders_kind |-> resp.orders_kind,
   orders |-> resp.orders]
SleepEntry(secs) == [req |-> "sleep", arg |-> <<secs>>, resp |-> [err |-> "none"]]

Running == [kind |-> "running", orders_df |-> NoneDF, items_df |-> NoneDF]
Returned(o, it) == [kind |-> "returned", orders_df |-> o, items_df |-> it]
Raised == [kind |-> "raised", orders_df |-> NoneDF, items_df |-> NoneDF]
NotCalled == [kind |-> "not_called", orders_df |-> NoneDF, items_df |-> NoneDF]

Errors == SelectSeq(messages, LAMBDA m : m.level = "error")

Init ==
  /\ pc = "establish"
  /\ session_state = [orders_df |-> NoneDF, items_df |-> NoneDF]
  /\ widgets = [username |-> "", request_otp |-> FALSE,
                otp_input |-> "", verify_otp |-> FALSE]
  /\ rendered = {}
  /\ doc_step = "start"
  /\ csrf_token = <<>> /\ sw_cookie = NoneVal
  /\ log = <<>> /\ fetched = <<>>
  /\ all_orders = <<>> /\ all_items = <<>>
  /\ offset_id = NoneVal /\ pages = 0 /\ i = 0
  /\ messages = <<>> /\ status_text = NoStatus /\ progress = 0
  /\ loop_exit = "none"
  /\ ret = Running

----------------------------------------------------------------------------
(* How a run ends *)

\* lines 232-234: the caller stores the tables when neither is None
Store(o, it) ==
  IF ~o.isNone /\ ~it.isNone
  THEN [orders_df |-> o, items_df |-> it]
  ELSE session_state

\* lines 237-266: the download section
DownloadWidgets(ss) ==
  IF ~ss.orders_df.isNone /\ ss.orders_df.rows # <<>>
  THEN {"download_orders", "download_items"} ELSE {}

\* return o, it  (then lines 232-266)
Return(o, it, shown) ==
  /\ pc' = "idle"
  /\ ret' = Returned(o, it)
  /\ session_state' = Store(o, it)
  /\ rendered' = shown \cup DownloadWidgets(Store(o, it))

\* an exception nothing catches: Streamlit stops the run there
Raise(shown) ==
  /\ pc' = "idle"
  /\ ret' = Raised
  /\ session_state' = session_state
  /\ rendered' = shown


----------------------------------------------------------------------------
(* A rerun: the user touched a widget and the script runs again *)

\* the value a text input holds for the next run: its state lives only as
\* long as the widget is on the page
Held(name, value) == IF name \in rendered THEN value ELSE ""

\* the last run went through without an error shown or raised
CleanRun == ret.kind = "returned" /\ Errors = <<>>

\* "How it works": 1. enter the mobile number, 2. request the OTP and enter
\* it (then Verify OTP).  The step the user is at after the interaction
\* (u, r, o, v) = (username, Request OTP pressed, otp, Verify OTP pressed).
DocNext(u, r, o, v) ==
  LET newU == u # Held("username", widgets.username)
      newO == o # Held("otp_input", widgets.otp_input)
  IN IF ~CleanRun THEN "off"
     ELSE IF doc_step = "start" /\ newU /\ ~newO /\ ~r /\ ~v THEN "phone"
     ELSE IF doc_step = "phone" /\ ~newU /\ ~newO /\ r /\ ~v THEN "requested"
     ELSE IF doc_step = "requested" /\ ~newU /\ newO /\ ~r /\ ~v THEN "otp"
     ELSE IF doc_step = "requested" /\ ~newU /\ o # "" /\ ~r /\ v THEN "pressed"
     ELSE IF doc_step = "otp" /\ ~newU /\ ~newO /\ ~r /\ v THEN "pressed"
     ELSE "off"

\* the tables fetched again in every run
NeedsFetch_Always(ss) == ss.orders_df.isNone \/ ~ss.orders_df.isNone

\* lines 226-231: the tables are fetched only while none is stored
NeedsFetch(ss) == ss.orders_df.isNone

\* A button reads True only if it was on the page and was pressed; a browser
\* delivers one press per rerun, a scripted driver of the page (one that sets
\* several widgets and then runs the script once) may deliver both.
Rerun ==
  /\ pc = "idle"
  /\ \E u \in Usernames, r \in BOOLEAN, o \in Otps, v \in BOOLEAN :
       /\ "username" \notin rendered => u = ""
       /\ "otp_input" \notin rendered => o = ""
       /\ r => "request_otp" \in rendered
       /\ v => "verify_otp" \in rendered
       /\ widgets' = [username |-> u, request_otp |-> r,
                      otp_input |-> o, verify_otp |-> v]
       /\ doc_step' = DocNext(u, r, o, v)
  /\ IF NeedsFetch(session_state)
     THEN pc' = "establish" /\ ret' = Running /\ rendered' = {}
     ELSE /\ pc' = "idle" /\ ret' = NotCalled
          /\ rendered' = DownloadWidgets(session_state)
  /\ csrf_token' = <<>> /\ sw_cookie' = NoneVal
  /\ log' = <<>> /\ fetched' = <<>>
  /\ all_orders' = <<>> /\ all_items' = <<>>
  /\ offset_id' = NoneVal /\ pages' = 0 /\ i' = 0
  /\ messages' = <<>> /\ status_text' = NoStatus /\ progress' = 0
  /\ loop_exit' = "none"
  /\ UNCHANGED session_state

----------------------------------------------------------------------------
(* fetch_swiggy_orders, login *)

\* line 43
SetupFailed(token, cookie) == token = <<>> \/ cookie = NoneVal

\* lines 34-56
Establish ==
  /\ pc = "establish"
  /\ \E resp \in RootResponses :
       LET parsed == ParseCsrf(resp.text) IN
       /\ log' = Append(log, Entry("GET_root", <<>>, resp))
       /\ IF resp.err # "none" \/ parsed.raises
          THEN Raise({}) /\ UNCHANGED <<csrf_token, sw_cookie, messages>>
          ELSE /\ csrf_token' = parsed.token
               /\ sw_cookie' = resp.cookie
               /\ IF SetupFailed(parsed.token, resp.cookie)
                  THEN /\ messages' = Append(messages,
                            Msg("error", "Unable to establish connection with Swiggy. Login failed", 0))
                       /\ Return(NoneDF, NoneDF, {})
                  ELSE /\ UNCHANGED messages
                       /\ IF widgets.username = ""
                          THEN Return(NoneDF, NoneDF, {"username"})
                          ELSE IF ~widgets.request_otp
                          THEN Return(NoneDF, NoneDF, {"username", "request_otp"})
                          ELSE /\ pc' = "send_otp"
                               /\ rendered' = {"username", "request_otp"}
                               /\ UNCHANGED <<ret, session_state>>
  /\ UNCHANGED <<widgets, doc_step, fetched, all_orders, all_items, offset_id,
                 pages, i, status_text, progress, loop_exit>>

\* line 68
SendRejected(resp) == resp.body = InvalidRequest

\* lines 58-70
SendOtp ==
  /\ pc = "send_otp"
  /\ \E resp \in SendResponses :
       /\ log' = Append(log, Entry("POST_send", csrf_token, resp))
       /\ IF resp.err # "none"
          THEN Raise(rendered) /\ UNCHANGED messages
          ELSE IF SendRejected(resp)
          THEN /\ messages' = Append(messages,
                    Msg("error", "Error from Swiggy API while sending OTP", 0))
               /\ Return(NoneDF, NoneDF, rendered)
          ELSE /\ pc' = "refresh"
               /\ UNCHANGED <<messages, ret, session_state, rendered>>
  /\ UNCHANGED <<widgets, doc_step, csrf_token, sw_cookie, fetched, all_orders,
                 all_items, offset_id, pages, i, status_text, progress, loop_exit>>

\* a refresh that keeps the token of the first fetch
RefreshedToken_Stale(old, text) == old

\* line 75: the token the verification carries
RefreshedToken(old, text) == ParseCsrf(text).token

\* lines 73-83
Refresh ==
  /\ pc = "refresh"
  /\ \E resp \in RootResponses :
       /\ log' = Append(log, Entry("GET_root", <<>>, resp))
       /\ IF resp.err # "none" \/ ParseCsrf(resp.text).raises
          THEN Raise(rendered) /\ UNCHANGED csrf_token
          ELSE /\ csrf_token' = RefreshedToken(csrf_token, resp.text)
               /\ IF ~widgets.verify_otp \/ widgets.otp_input = ""
                  THEN Return(NoneDF, NoneDF, rendered \cup {"otp_input", "verify_otp"})
                  ELSE /\ pc' = "verify"
                       /\ rendered' = rendered \cup {"otp_input", "verify_otp"}
                       /\ UNCHANGED <<ret, session_state>>
  /\ UNCHANGED <<widgets, doc_step, sw_cookie, fetched, all_orders, all_items,
                 offset_id, pages, i, messages, status_text, progress, loop_exit>>

\* a check of the body alone
VerifyRejected_BodyOnly(resp) == resp.body = InvalidRequest

\* line 92
VerifyRejected(resp) == resp.body = InvalidRequest \/ resp.status # 200

\* lines 85-104
VerifyOtp ==
  /\ pc = "verify"
  /\ \E resp \in VerifyResponses :
       /\ log' = Append(log, Entry("POST_verify", csrf_token, resp))
       /\ IF resp.err # "none"
          THEN Raise(rendered) /\ UNCHANGED messages
          ELSE IF VerifyRejected(resp)
          THEN /\ messages' = Append(messages,
                    Msg("error", "Invalid OTP or login failed", 0))
               /\ Return(NoneDF, NoneDF, rendered)
          ELSE /\ messages' = Append(messages,
                    Msg("success", "Logged in successfully!", 0))
               /\ pc' = "initial"
               /\ UNCHANGED <<ret, session_state, rendered>>
  /\ progress' = 0 /\ status_text' = NoStatus
  /\ all_orders' = <<>> /\ all_items' = <<>>
  /\ UNCHANGED <<widgets, doc_step, csrf_token, sw_cookie, fetched, offset_id,
                 pages, i, loop_exit>>


----------------------------------------------------------------------------
(* fetch_swiggy_orders, pagination *)

\* line 127
PageCount(count) == Ceil10(count)

\* a cursor taken from the last Delivered order instead
NextCursor_LastDelivered(orders) ==
  LET d == SelectSeq(orders, LAMBDA o : o.order_status = "Delivered")
  IN IF d = <<>> THEN orders[Len(orders)].order_id ELSE d[Len(d)].order_id

\* lines 132 and 154: the cursor of the next page
NextCursor(orders) == Last(orders).order_id

\* line 118
ZeroOrders(orders) == Len(orders) = 0

\* response.json().get('data').get('orders', []): raises when the body is
\* not JSON or has no data object; None when orders is null
OrdersOf(resp) ==
  [raises |-> resp.err # "none" \/ resp.data = "none",
   isNone |-> resp.data = "dict" /\ resp.orders_kind = "null",
   list   |-> IF resp.data = "dict" /\ resp.orders_kind = "list"
              THEN resp.orders ELSE <<>>]

\* lines 159-171 and the caller's lines 232-266: the loop is over (how:
\* "exhausted", "empty", "error"), the tables are built from the accumulators
Finish(acc_orders, acc_items, how) ==
  /\ loop_exit' = how
  /\ progress' = 100
  /\ status_text' = Status("All orders fetched successfully!", 0, 0)
  /\ Return(DF(acc_orders), DF(acc_items), rendered)

\* lines 135-138: the head of iteration n of  for i in range(1, pages)
LoopHead(n, pg, acc_orders, acc_items) ==
  IF n < pg
  THEN /\ pc' = "fetch" /\ i' = n
       /\ progress' = (n * 100) \div pg
       /\ status_text' = Status("Fetching page", n + 1, pg)
       /\ loop_exit' = "none"
       /\ UNCHANGED <<ret, session_state, rendered>>
  ELSE /\ i' = i
       /\ Finish(acc_orders, acc_items, "exhausted")

\* a zero-orders branch that returns nothing
ZeroOrdersTable_None == NoneDF

\* line 120
ZeroOrdersTable == DF(<<>>)

\* lines 106-138 (and 159-171 when the loop has no iteration)
InitialFetch ==
  /\ pc = "initial"
  /\ \E resp \in InitialResponses :
       LET got == OrdersOf(resp)
           batch == process_orders_batch(got.list, all_orders, all_items)
           count == IF resp.total_kind = "int" THEN resp.total ELSE 0
       IN
       /\ log' = Append(log, Entry("GET_orders", <<>>, Seen(resp)))
       /\ IF resp.err # "none"
          THEN /\ Raise(rendered)
               /\ UNCHANGED <<messages, fetched, all_orders, all_items, offset_id,
                              pages, i, status_text, progress, loop_exit>>
          ELSE IF resp.data # "dict"
          THEN /\ messages' = Append(messages, Msg("error", "Unable to fetch orders", 0))
               /\ Return(NoneDF, NoneDF, rendered)
               /\ UNCHANGED <<fetched, all_orders, all_items, offset_id,
                              pages, i, status_text, progress, loop_exit>>
          ELSE IF got.isNone
          THEN /\ Raise(rendered)
               /\ UNCHANGED <<messages, fetched, all_orders, all_items, offset_id,
                              pages, i, status_text, progress, loop_exit>>
          ELSE IF ZeroOrders(got.list)
          THEN /\ messages' = Append(messages,
                    Msg("info", "You have not placed any order, no data to fetch :)", 0))
               /\ fetched' = Append(fetched, got.list)
               /\ Return(ZeroOrdersTable, ZeroOrdersTable, rendered)
               /\ UNCHANGED <<all_orders, all_items, offset_id,
                              pages, i, status_text, progress, loop_exit>>
          ELSE /\ fetched' = Append(fetched, got.list)
               /\ all_orders' = batch.all_orders
               /\ all_items' = batch.all_items
               /\ UNCHANGED messages
               /\ IF resp.total_kind = "str"
                  THEN /\ Raise(rendered)
                       /\ UNCHANGED <<offset_id, pages, i, status_text, progress,
                                      loop_exit>>
                  ELSE /\ pages' = PageCount(count)
                       /\ offset_id' = NextCursor(got.list)
                       /\ LoopHead(1, PageCount(count), batch.all_orders, batch.all_items)
  /\ UNCHANGED <<widgets, doc_step, csrf_token, sw_cookie>>

\* a retry on whatever the first request raised
ShouldRetry_AnyError(resp) == resp.err # "none"

\* line 182: the one exception fetch_orders_page retries on
ShouldRetry(resp) == resp.err = "conn"

\* an error branch that gives up the run instead of leaving the loop
PageError_Abort(msgs) ==
  /\ messages' = Append(msgs, Msg("error", "Error fetching page", i + 1))
  /\ loop_exit' = "error"
  /\ Return(NoneDF, NoneDF, rendered)
  /\ UNCHANGED <<fetched, all_orders, all_items, offset_id, i, status_text, progress>>

\* lines 142-144, 159-171: what the caller does with an exception of
\* fetch_orders_page
PageError(msgs) ==
  /\ messages' = Append(msgs, Msg("error", "Error fetching page", i + 1))
  /\ Finish(all_orders, all_items, "error")
  /\ UNCHANGED <<fetched, all_orders, all_items, offset_id, i>>

\* an empty page taken for a failure of the run
NoMoreOrders_AsError(got, msgs, lg) ==
  /\ loop_exit' = "empty"
  /\ Return(NoneDF, NoneDF, rendered)
  /\ fetched' = Append(fetched, got.list)
  /\ log' = lg
  /\ messages' = Append(msgs, Msg("error", "Error fetching page", i + 1))
  /\ UNCHANGED <<all_orders, all_items, offset_id, i, status_text, progress>>

\* lines 146-148, 159-171: the page came back empty
NoMoreOrders(got, msgs, lg) ==
  /\ Finish(all_orders, all_items, "empty")
  /\ fetched' = Append(fetched, got.list)
  /\ log' = lg /\ messages' = msgs
  /\ UNCHANGED <<all_orders, all_items, offset_id, i>>

\* lines 146-157 and the next loop head: the page fetch_orders_page returned
PageReturned(got, msgs, lg) ==
  LET batch == process_orders_batch(got.list, all_orders, all_items) IN
  IF got.isNone
  THEN /\ Raise(rendered)
       /\ log' = lg /\ messages' = msgs
       /\ UNCHANGED <<fetched, all_orders, all_items, offset_id, i, status_text,
                      progress, loop_exit>>
  ELSE IF Len(got.list) = 0
  THEN NoMoreOrders(got, msgs, lg)
  ELSE /\ fetched' = Append(fetched, got.list)
       /\ all_orders' = batch.all_orders
       /\ all_items' = batch.all_items
       /\ offset_id' = NextCursor(got.list)
       /\ log' = Append(lg, SleepEntry("1.5"))
       /\ messages' = msgs
       /\ LoopHead(i + 1, pages, batch.all_orders, batch.all_items)

\* line 141 with fetch_orders_page's lines 175-184 and 187-188
FetchPage ==
  /\ pc = "fetch"
  /\ \E resp \in PageResponses :
       LET got == OrdersOf(resp)
           lg == Append(log, Entry("GET_orders", <<offset_id>>, Seen(resp)))
       IN
       IF ShouldRetry(resp)
       THEN /\ log' = Append(lg, SleepEntry("2"))
            /\ pc' = "retry"
            /\ UNCHANGED <<messages, fetched, all_orders, all_items, offset_id, i,
                           status_text, progress, loop_exit, ret, session_state,
                           rendered>>
       ELSE IF got.raises
       THEN log' = lg /\ PageError(messages)
       ELSE PageReturned(got,
              IF ~got.isNone /\ got.list = <<>>
              THEN Append(messages, Msg("warning", "No more orders to fetch.", 0))
              ELSE messages,
              lg)
  /\ UNCHANGED <<widgets, doc_step, csrf_token, sw_cookie, pages>>

\* lines 185-186: the retry, inside the except clause
RetryPage ==
  /\ pc = "retry"
  /\ \E resp \in PageResponses :
       LET got == OrdersOf(resp)
           lg == Append(log, Entry("GET_orders", <<offset_id>>, Seen(resp)))
       IN
       IF got.raises
       THEN log' = lg /\ PageError(messages)
       ELSE PageReturned(got, messages, lg)
  /\ UNCHANGED <<widgets, doc_step, csrf_token, sw_cookie, pages>>

----------------------------------------------------------------------------

Next ==
  \/ Rerun
  \/ Establish
  \/ SendOtp
  \/ Refresh
  \/ VerifyOtp
  \/ InitialFetch
  \/ FetchPage
  \/ RetryPage

Spec == Init /\ [][Next]_vars


----------------------------------------------------------------------------
(* Reading the log of a run *)

IsOrdersGet(e) == e.req = "GET_orders"
IsCursorGet(e) == e.req = "GET_orders" /\ e.arg # <<>>
IsBackoff(e) == e.req = "sleep" /\ e.arg = <<"2">>

\* the entries the step has added to the log
NewEntries == IF Len(log') > Len(log) THEN SubSeq(log', Len(log) + 1, Len(log')) ELSE <<>>

\* log[k] is the second request of one fetch_orders_page call
IsRetry(k) == k > 2 /\ IsBackoff(log[k-1])

\* the answer carries a list of orders (possibly empty)
CarriesList(resp) ==
  /\ resp.err = "none"
  /\ resp.data # "none"
  /\ ~(resp.data = "dict" /\ resp.orders_kind = "null")

ListCarried(resp) ==
  IF resp.data = "dict" /\ resp.orders_kind = "list" THEN resp.orders ELSE <<>>

\* how many order lists the endpoint had returned before log[k]
ReturnedBefore(k) ==
  Cardinality({ j \in 1..(k-1) : IsOrdersGet(log[j]) /\ CarriesList(log[j].resp) })

\* calls of fetch_orders_page so far: cursor requests that are no retry
FetchCalls ==
  Cardinality({ k \in 1..Len(log) : IsCursorGet(log[k]) /\ ~IsRetry(k) })

----------------------------------------------------------------------------
(* C1 *)

\* C1: every cursor-based request carries the order_id of the last element
\* of the order list returned for the page before it (page i, when page i+1
\* is requested), whether or not that order was Delivered.
C1_CursorCorrect ==
  [][ \A k \in 1..Len(NewEntries) :
        IsCursorGet(NewEntries[k]) =>
          /\ Len(fetched) = i
          /\ Last(fetched) # <<>>
          /\ NewEntries[k].arg = << Last(fetched)[Len(Last(fetched))].order_id >>
    ]_vars

\* page 3 was requested with the id of a Cancelled order that ended page 2
C1_Witness ==
  /\ Len(fetched) >= 2
  /\ fetched[2] # <<>>
  /\ Last(fetched[2]).order_status = "Cancelled"
  /\ fetched[1] # <<>> /\ Last(fetched[1]).order_id # Last(fetched[2]).order_id
  /\ \E k \in 1..Len(log) :
       /\ IsCursorGet(log[k])
       /\ ReturnedBefore(k) = 2
       /\ log[k].arg = <<Last(fetched[2]).order_id>>


----------------------------------------------------------------------------
(* C2 *)

\* C2: with pages = ceil(total_orders / 10) the paginator calls
\* fetch_orders_page at most pages - 1 times, and a run that has started
\* paging always ends with the tables built, whatever the pages hold.
C2_BoundedAndBuilt ==
  /\ FetchCalls <= (IF pages >= 1 THEN pages - 1 ELSE 0)
  /\ (pc = "idle" /\ \E k \in 1..Len(log) : IsCursorGet(log[k]))
       => (ret.kind = "returned" /\ ~ret.orders_df.isNone /\ ~ret.items_df.isNone)

----------------------------------------------------------------------------
(* C3 *)

\* the answer makes response.json().get('data').get('orders', []) raise
FetchRaises(resp) == resp.err # "none" \/ resp.data = "none"

\* C3: a first request of a page that meets a connection error is followed
\* by the backoff and one request with the same cursor, and by nothing else
\* for that page: a retry that succeeds hands its orders to the caller, a
\* retry that fails ends in the caller's error branch; no other failure is
\* retried.
C3_RetryOnce ==
  \A k \in 1..Len(log) :
    IsCursorGet(log[k]) =>
      IF ~IsRetry(k)
      THEN /\ (log[k].resp.err = "conn") <=> (k < Len(log) /\ IsBackoff(log[k+1]))
           /\ log[k].resp.err = "conn" =>
                /\ k + 1 = Len(log) => pc = "retry"
                /\ k + 1 < Len(log) =>
                     IsCursorGet(log[k+2]) /\ log[k+2].arg = log[k].arg
      ELSE /\ IsCursorGet(log[k-2]) /\ ~IsRetry(k-2)
           /\ log[k-2].resp.err = "conn"
           /\ log[k].arg = log[k-2].arg
           /\ k < Len(log) => log[k+1].req = "sleep" /\ log[k+1].arg = <<"1.5">>
           /\ FetchRaises(log[k].resp) =>
                /\ k = Len(log)
                /\ loop_exit = "error"
                /\ Errors # <<>> /\ Last(Errors).text = "Error fetching page"
           /\ CarriesList(log[k].resp) =>
                /\ Len(fetched) > ReturnedBefore(k)
                /\ fetched[ReturnedBefore(k) + 1] = ListCarried(log[k].resp)

\* a retry that succeeded with a page of orders, and the run went on
C3_Witness ==
  \E k \in 1..Len(log) :
    /\ IsCursorGet(log[k]) /\ IsRetry(k)
    /\ CarriesList(log[k].resp) /\ ListCarried(log[k].resp) # <<>>
    /\ k + 1 < Len(log)

\* a retry that failed as well
C3_WitnessFailed ==
  \E k \in 1..Len(log) :
    /\ IsCursorGet(log[k]) /\ IsRetry(k)
    /\ log[k].resp.err = "conn"

----------------------------------------------------------------------------
(* C4 *)

RECURSIVE Flatten(_)
Flatten(ss) == IF ss = <<>> THEN <<>> ELSE Head(ss) \o Flatten(Tail(ss))

DeliveredOf(page) == SelectSeq(page, LAMBDA o : o.order_status = "Delivered")

\* the tables that hold exactly what the given pages contain
OrdersTableOf(pgs) ==
  Flatten([ p \in 1..Len(pgs) |->
            [ k \in 1..Len(DeliveredOf(pgs[p])) |-> OrderRow(DeliveredOf(pgs[p])[k]) ] ])
ItemsTableOf(pgs) ==
  Flatten([ p \in 1..Len(pgs) |->
            Flatten([ k \in 1..Len(DeliveredOf(pgs[p])) |->
                      ItemRows(DeliveredOf(pgs[p])[k]) ]) ])

\* a call of fetch_orders_page raised: its only request, or its retry
PageFetchFailed(k) ==
  /\ IsCursorGet(log[k])
  /\ FetchRaises(log[k].resp)
  /\ IsRetry(k) \/ log[k].resp.err # "conn"

----------------------------------------------------------------------------
(* C5 *)

\* the initial request was answered with an empty list of orders
EmptyInitial(e) ==
  /\ e.req = "GET_orders" /\ e.arg = <<>>
  /\ e.resp.err = "none" /\ e.resp.data = "dict"
  /\ e.resp.orders_kind = "list" /\ e.resp.orders = <<>>

\* C5: an initial response with an empty orders list makes
\* fetch_swiggy_orders return two empty tables, with no cursor-based request
\* and no error shown.
C5_ZeroOrders ==
  \A k \in 1..Len(log) :
    EmptyInitial(log[k]) =>
      /\ k = Len(log)
      /\ pc = "idle"
      /\ ret = Returned(DF(<<>>), DF(<<>>))
      /\ \A j \in 1..Len(log) : ~IsCursorGet(log[j])
      /\ Errors = <<>>

C5_Witness ==
  /\ Len(log) > 0 /\ EmptyInitial(Last(log))
  /\ ret.kind = "returned"

----------------------------------------------------------------------------
(* C6 *)

DeliveredIdx(page) == { j \in 1..Len(page) : page[j].order_status = "Delivered" }

RECURSIVE DeliveredItemCount(_, _)
DeliveredItemCount(page, n) ==
  IF n = 0 THEN 0
  ELSE DeliveredItemCount(page, n - 1)
       + (IF n \in DeliveredIdx(page) THEN Len(page[n].order_items) ELSE 0)

\* C6: each page of orders adds one order row per Delivered order of the
\* page and one item row per item of those orders, and nothing else.
C6_ExtractionCounts ==
  [][ Len(fetched') = Len(fetched) + 1 =>
        LET page == fetched'[Len(fetched')] IN
        /\ Len(all_orders') = Len(all_orders) + Cardinality(DeliveredIdx(page))
        /\ Len(all_items') = Len(all_items) + DeliveredItemCount(page, Len(page))
    ]_vars

\* a second page with a Cancelled order and a Delivered order without items
\* was processed after a first page that gave item rows
C6_Witness ==
  /\ Len(fetched) >= 2
  /\ Len(fetched[2]) = 2
  /\ Cardinality(DeliveredIdx(fetched[2])) = 1
  /\ DeliveredItemCount(fetched[2], 2) = 0
  /\ Len(all_items) > 0
  /\ Len(all_orders) = Cardinality(DeliveredIdx(fetched[1])) + 1


----------------------------------------------------------------------------
(* C7 *)

SendAccepted(e) ==
  e.req = "POST_send" /\ e.resp.err = "none" /\ e.resp.body # <<"Invalid Request">>

VerifyAccepted(e) ==
  /\ e.req = "POST_verify" /\ e.resp.err = "none"
  /\ e.resp.status = 200 /\ e.resp.body # <<"Invalid Request">>

SendOrVerifyRejected(e) ==
  /\ e.req \in {"POST_send", "POST_verify"}
  /\ e.resp.err = "none"
  /\ ~SendAccepted(e) /\ ~VerifyAccepted(e)

\* C7: a request to the orders endpoint comes only after, in the same run,
\* an OTP send that was not answered "Invalid Request" and then an OTP
\* verification answered 200 with a body other than "Invalid Request"; a
\* rejected send or verification ends the run with an error shown, (None,
\* None) returned and no request to the orders endpoint.
C7_OrdersOnlyAuthenticated ==
  /\ \A k \in 1..Len(log) :
       IsOrdersGet(log[k]) =>
         \E s \in 1..(k-1), v \in 1..(k-1) :
           s < v /\ SendAccepted(log[s]) /\ VerifyAccepted(log[v])
  /\ \A k \in 1..Len(log) :
       SendOrVerifyRejected(log[k]) =>
         /\ k = Len(log)
         /\ pc = "idle"
         /\ ret = Returned(NoneDF, NoneDF)
         /\ Errors # <<>>
         /\ \A j \in 1..Len(log) : ~IsOrdersGet(log[j])

\* the orders endpoint was asked, after a login
C7_Witness ==
  \E k \in 1..Len(log) : IsCursorGet(log[k])

\* a verification answered 401 ended the run
C7_WitnessRejected ==
  /\ Len(log) > 0
  /\ Last(log).req = "POST_verify" /\ Last(log).resp.status = 401
  /\ pc = "idle"

----------------------------------------------------------------------------
(* C8 *)

\* C8: the OTP verification is sent only after the OTP send and a re-fetch
\* of the root page that follows it, and carries the token embedded in that
\* re-fetched page.
C8_TokenRefreshed ==
  \A v \in 1..Len(log) :
    log[v].req = "POST_verify" =>
      /\ v > 2
      /\ log[v-1].req = "GET_root" /\ log[v-1].resp.err = "none"
      /\ \E s \in 1..(v-2) : log[s].req = "POST_send"
      /\ log[v-1].resp.text = RootPage(log[v].arg)

\* a verification that carried another token than the OTP send did
C8_Witness ==
  \E s \in 1..Len(log), v \in 1..Len(log) :
    /\ log[s].req = "POST_send" /\ log[v].req = "POST_verify"
    /\ log[s].arg # log[v].arg /\ log[v].arg # <<>>

----------------------------------------------------------------------------
(* C9 *)

\* C9: a user who follows "How it works" in the browser, with nothing
\* rejected on the way, always finds the widget of the next step on the page
\* when a run has ended, and has the tables stored once Verify OTP was
\* pressed.
C9_DocumentedStepsReachDownload ==
  (pc = "idle" /\ CleanRun) =>
    /\ doc_step = "start" => "username" \in rendered
    /\ doc_step = "phone" => "request_otp" \in rendered
    /\ doc_step = "requested" => {"otp_input", "verify_otp"} \subseteq rendered
    /\ doc_step = "otp" => "verify_otp" \in rendered
    /\ doc_step = "pressed" =>
         /\ \E k \in 1..Len(log) : VerifyAccepted(log[k])
         /\ ~session_state.orders_df.isNone /\ ~session_state.items_df.isNone

----------------------------------------------------------------------------
(* C10 *)

LacksFragment(text) == \A k \in 1..Len(text) : text[k] # "csrfToken"

\* the first root page came without the token fragment or without the cookie
SetupLacking ==
  /\ Len(log) > 0
  /\ log[1].req = "GET_root" /\ log[1].resp.err = "none"
  /\ LacksFragment(log[1].resp.text) \/ log[1].resp.cookie = NoneVal

\* C10: a root page without the token fragment or without the session
\* cookie ends the run at once with an error shown and (None, None)
\* returned: no widget is put on the page and no further request is made.
C10_CleanSetupError ==
  SetupLacking =>
    /\ pc = "idle"
    /\ Len(log) = 1
    /\ rendered = {}
    /\ ret = Returned(NoneDF, NoneDF)
    /\ Errors # <<>>


----------------------------------------------------------------------------
(* C11 *)

\* log[k] is a request that met a transport error or a malformed answer,
\* other than a first page request that is about to be retried
RequestFailed(k) ==
  LET e == log[k] IN
  \/ e.req = "GET_root" /\ (e.resp.err # "none" \/ LacksFragment(e.resp.text))
  \/ e.req \in {"POST_send", "POST_verify"} /\ e.resp.err # "none"
  \/ /\ e.req = "GET_orders"
     /\ FetchRaises(e.resp) \/ (e.resp.data = "dict" /\ e.resp.orders_kind = "null")
     /\ ~(IsCursorGet(e) /\ ~IsRetry(k) /\ e.resp.err = "conn")

\* C11: no run ends in an unhandled exception; a request that fails, by a
\* transport error or a malformed answer, ends the run or the pagination
\* with an error message on the page.
C11_NoUnhandledFailure ==
  /\ ret.kind # "raised"
  /\ \A k \in 1..Len(log) :
       RequestFailed(k) => (pc = "idle" /\ ret.kind = "returned" /\ Errors # <<>>)


----------------------------------------------------------------------------
(* C13 *)

\* log[k] is a cursor-based request answered with no orders
EmptyPage(k) ==
  IsCursorGet(log[k]) /\ CarriesList(log[k].resp) /\ ListCarried(log[k].resp) = <<>>

\* C13: a cursor-based fetch that returns zero orders is the last request
\* of the run; no error is shown or raised, and the tables returned and
\* stored hold exactly the rows of the pages fetched before, however many
\* pages were computed.
C13_EmptyPageEnds ==
  \A k \in 1..Len(log) :
    EmptyPage(k) =>
      /\ k = Len(log)
      /\ pc = "idle"
      /\ Errors = <<>>
      /\ ret = Returned(DF(OrdersTableOf(fetched)), DF(ItemsTableOf(fetched)))
      /\ session_state.orders_df = ret.orders_df
      /\ session_state.items_df = ret.items_df

\* page 2 of 3 came back empty after a first page that gave rows
C13_Witness ==
  /\ Len(log) > 0 /\ EmptyPage(Len(log))
  /\ pages = 3 /\ i = 1
  /\ Len(fetched) = 2
  /\ ret.kind = "returned" /\ ret.orders_df.rows # <<>>


----------------------------------------------------------------------------
(* C14 *)

IsInterval(e) == e.req = "sleep" /\ e.arg = <<"1.5">>

\* log[k] is a request to the orders endpoint that returned a list
FetchSucceeded(k) == IsOrdersGet(log[k]) /\ CarriesList(log[k].resp)

\* C14: between two consecutive successful fetches of one run, the initial
\* one included, the inter-page delay comes before the later request.
C14_DelayBetweenFetches ==
  \A j \in 1..Len(log), k \in 1..Len(log) :
    ( /\ j < k
      /\ FetchSucceeded(j) /\ FetchSucceeded(k)
      /\ \A m \in (j+1)..(k-1) : ~FetchSucceeded(m) )
    => \E m \in (j+1)..(k-1) : IsInterval(log[m])

\* the same, for the cursor-based fetches alone
C14_DelayBetweenCursorFetches ==
  \A j \in 1..Len(log), k \in 1..Len(log) :
    ( /\ j < k
      /\ FetchSucceeded(j) /\ IsCursorGet(log[j]) /\ FetchSucceeded(k)
      /\ \A m \in (j+1)..(k-1) : ~FetchSucceeded(m) )
    => \E m \in (j+1)..(k-1) : IsInterval(log[m])


----------------------------------------------------------------------------
(* C15 *)

IsPrefix(s, t) == Len(s) <= Len(t) /\ SubSeq(t, 1, Len(s)) = s

\* C15: after every step the orders table is the concatenation, page by
\* page in fetch order, of the Delivered orders in their order within the
\* page, the items table lists their items in the same order, and within a
\* run a step only appends rows to either table.
C15_OutputOrder ==
  [][ /\ all_orders' = OrdersTableOf(fetched')
      /\ all_items' = ItemsTableOf(fetched')
      /\ pc # "idle" => (IsPrefix(all_orders, all_orders') /\ IsPrefix(all_items, all_items'))
      /\ (ret'.kind = "returned" /\ ~ret'.orders_df.isNone) =>
           (ret'.orders_df.rows = all_orders' /\ ret'.items_df.rows = all_items')
    ]_vars

\* two pages with two Delivered orders each, in opposite orders, were
\* fetched and returned
C15_Witness ==
  /\ Len(fetched) = 2
  /\ Len(DeliveredOf(fetched[1])) = 2 /\ Len(DeliveredOf(fetched[2])) = 2
  /\ fetched[1] # fetched[2]
  /\ ret.kind = "returned" /\ Len(ret.orders_df.rows) = 4
  /\ Len(ret.items_df.rows) = 4

----------------------------------------------------------------------------
(* C16 *)

\* the orders of the pages fetched so far
FetchedOrders == Flatten(fetched)

\* C16: in every reachable state each row of the items accumulator carries
\* the order_id of a row of the orders accumulator, and none carries the
\* order_id of a fetched order that is not Delivered; the same holds of the
\* tables a run returns.
C16_ItemsHaveOrders ==
  /\ \A k \in 1..Len(all_items) :
       /\ \E j \in 1..Len(all_orders) : all_orders[j][1] = all_items[k][1]
       /\ \A q \in 1..Len(FetchedOrders) :
            FetchedOrders[q].order_id = all_items[k][1] =>
              FetchedOrders[q].order_status = "Delivered"
  /\ (ret.kind = "returned" /\ ~ret.items_df.isNone) =>
       \A k \in 1..Len(ret.items_df.rows) :
         \E j \in 1..Len(ret.orders_df.rows) :
           ret.orders_df.rows[j][1] = ret.items_df.rows[k][1]

\* item rows were extracted from pages that also held an order that is not
\* Delivered and has items, and a Delivered order without items
C16_Witness ==
  /\ all_items # <<>>
  /\ \E q \in 1..Len(FetchedOrders) :
       /\ FetchedOrders[q].order_status # "Delivered"
       /\ FetchedOrders[q].order_items # <<>>
  /\ \E q \in 1..Len(FetchedOrders) :
       /\ FetchedOrders[q].order_status = "Delivered"
       /\ FetchedOrders[q].order_items = <<>>

----------------------------------------------------------------------------
(* C17 *)

\* C17: from a state where non-None tables are stored, every step leaves
\* the stored tables unchanged, does not call fetch_swiggy_orders and makes
\* no request; and a run that returns (None, None) leaves the session state
\* as it was.
C17_CacheWriteOnce ==
  [][ /\ ~session_state.orders_df.isNone =>
           /\ session_state' = session_state
           /\ ret'.kind = "not_called" /\ pc' = "idle"
           /\ log' = <<>>
      /\ (ret'.kind = "returned" /\ ret'.orders_df.isNone /\ ret'.items_df.isNone) =>
           session_state' = session_state
    ]_vars

\* a rerun after tables with rows were stored
C17_Witness ==
  /\ ret.kind = "not_called"
  /\ ~session_state.orders_df.isNone /\ session_state.orders_df.rows # <<>>
  /\ ~session_state.items_df.isNone

\* a rerun after the two empty tables of the zero-orders case were stored
C17_WitnessEmpty ==
  /\ ret.kind = "not_called"
  /\ session_state.orders_df = DF(<<>>) /\ session_state.items_df = DF(<<>>)

\* a run ended with (None, None) and nothing is stored
C17_WitnessNone ==
  /\ ret.kind = "returned" /\ ret.orders_df.isNone /\ ret.items_df.isNone
  /\ session_state.orders_df.isNone /\ log # <<>>

----------------------------------------------------------------------------
(* C18 *)

\* C18: the status "All orders fetched successfully!" with the progress at
\* 100% is shown only in runs where no page fetch failed: never after the
\* loop was left through the error branch.
C18_CompletionTruthful ==
  (status_text.text = "All orders fetched successfully!" /\ progress = 100) =>
    /\ loop_exit # "error"
    /\ \A k \in 1..Len(log) : ~PageFetchFailed(k)

====
